---- MODULE Spec2Model ----
(***************************************************************************)
(* The Pangea ingestion pipeline of the Spark order-book mirror            *)
(* (src/src/indexer/pangea.rs) and the read side of its GraphQL surface    *)
(* (src/src/web/graphql.rs), as one state machine.                         *)
(*                                                                         *)
(* The upstream (the Pangea indexing service) holds an ordered chain of    *)
(* byte records of the market.  One ingestion task walks through           *)
(* start_pangea_indexer -> fetch_historical_data -> listen_for_new_deltas; *)
(* a reader task serves the two-sided queries concurrently.                *)
(***************************************************************************)
EXTENDS Integers, Sequences, FiniteSets, TLC

VARIABLES
    chain,                \* upstream: the market's records, in upstream order
    contract_start_block, \* CONTRACT_START_BLOCK as configured
    config,               \* outcome of reading the configuration / connecting
    spawned,              \* number of ingestion tasks pushed on `tasks`
    initResult,           \* what initialize_pangea_indexer returned
    pc,                   \* position of the ingestion task
    exitCause,            \* why the ingestion task ended, "none" while it runs
    last_processed_block, \* the resume cursor
    head,                 \* index of the last record inside the bounded range
    pos,                  \* index of the next record the open stream may yield
    requests,             \* the requests issued so far, in order
    decoded,              \* indices of the records decoded, in order
    applied,              \* indices of the records handle_order_event finished
    inFlight,             \* indices of the records being applied right now
    store,                \* the order book: orders by id and the trade log
    hist,                 \* store state after each prefix of applied events
    failures,             \* transport failures injected so far
    sleeps,               \* seconds of each reconnect back-off wait completed
    rpc,                  \* position of the reader task
    rbuy,                 \* buy side as read by the query in progress
    lastRead,             \* the last completed read
    reads,                \* number of completed reads
    call,                 \* the query called on its own: its name and inputs
    sub,                  \* the subscription: its kind and order_type argument
    spc,                  \* position of the subscription's loop
    lastEmit,             \* the value the subscription yielded last
    eparity,              \* parity of the number of emissions
    waits                 \* sleeps completed since the last emission

vars == << chain, contract_start_block, config, spawned, initResult, pc,
           exitCause, last_processed_block, head, pos, requests, decoded,
           applied, inFlight, store, hist, failures, sleeps, rpc, rbuy,
           lastRead, reads, call, sub, spc, lastEmit, eparity, waits >>

pipeVars == << pc, exitCause, last_processed_block, head, pos, requests,
               decoded, applied, inFlight, store, hist, failures, sleeps >>

subVars == << sub, spc, lastEmit, eparity, waits >>

readVars == << rpc, rbuy, lastRead, reads, subVars >>

envVars == << chain, contract_start_block, call >>

(***************************************************************************)
(* Bounds of the model.                                                    *)
(***************************************************************************)
MaxChain == 2      \* records the upstream holds
MaxOff == 1        \* block numbers range over start .. start + MaxOff
MaxFail == 2       \* transport failures injected in one run
MaxReads == 1      \* completed reads in one run
MaxSide == 2       \* orders on one side, and trades, in a query called on its own
PriceBits == 5     \* width of a price, standing for the 128 bits of u128
UsizeBits == 16    \* width of usize, standing for 64 bits

(***************************************************************************)
(* Records on the wire.  `wire` says how the bytes decode.                 *)
(***************************************************************************)
OpenA == [wire |-> "json", kind |-> "Open", id |-> "A", side |-> "Buy", price |-> 10]
OpenB == [wire |-> "json", kind |-> "Open", id |-> "B", side |-> "Sell", price |-> 12]
FillA == [wire |-> "json", kind |-> "Fill", id |-> "A", side |-> "Buy", price |-> 10]
CancelB == [wire |-> "json", kind |-> "Cancel", id |-> "B", side |-> "Sell", price |-> 12]
BadUtf8 == [wire |-> "bad_utf8", kind |-> "None", id |-> "-", side |-> "-", price |-> 0]
BadJson == [wire |-> "bad_json", kind |-> "None", id |-> "-", side |-> "-", price |-> 0]

Payloads == {OpenA, OpenB, FillA, CancelB, BadUtf8, BadJson}

StartBlocks == {0, 100}

Ids == {"A", "B"}

WithBlock(p, b) == [block |-> b, wire |-> p.wire, kind |-> p.kind, id |-> p.id,
                    side |-> p.side, price |-> p.price]

RecordsFrom(s) == {WithBlock(p, b) : p \in Payloads, b \in s .. s + MaxOff}

\* the upstream yields a market's records in block order
BlockOrdered(c) == \A i \in 1 .. Len(c) - 1 : c[i].block <= c[i + 1].block

\* a payload occurs once on the chain: every upstream record is its own event
Distinct(c) == \A i, j \in 1 .. Len(c) : i # j =>
                  WithBlock(c[i], 0) # WithBlock(c[j], 0)

Chains(s) == UNION {{c \in [1 .. n -> RecordsFrom(s)] : BlockOrdered(c) /\ Distinct(c)}
                    : n \in 0 .. MaxChain}

(***************************************************************************)
(* Event Decoder: String::from_utf8 then serde_json::from_str.             *)
(***************************************************************************)
from_utf8(r) == IF r.wire = "bad_utf8" THEN "Err" ELSE "Ok"

from_str(r) == IF r.wire = "json" THEN "Ok" ELSE "Err"

Decodes(r) == from_utf8(r) = "Ok" /\ from_str(r) = "Ok"

(***************************************************************************)
(* Order Book Store and Event Applier.                                     *)
(***************************************************************************)
NoOrder == [side |-> "-", price |-> 0, status |-> "Absent"]

EmptyStore == [orders |-> [i \in Ids |-> NoOrder], trades |-> << >>]

upsert(st, id, side, price, status) ==
    IF st.orders[id].status # "Absent" /\ st.orders[id].side # side
    THEN st
    ELSE [st EXCEPT !.orders[id] = [side |-> side, price |-> price, status |-> status]]

close(st, id, status) ==
    IF st.orders[id].status = "Absent"
    THEN st
    ELSE [st EXCEPT !.orders[id].status = status]

append_trade(st, r) ==
    [st EXCEPT !.trades = Append(@, [id |-> r.id, price |-> r.price, block |-> r.block])]

handle_order_event(st, r) ==
    CASE r.kind = "Open" -> upsert(st, r.id, r.side, r.price, "Active")
      [] r.kind = "Fill" -> append_trade(upsert(st, r.id, r.side, r.price, "Filled"), r)
      [] r.kind = "Cancel" -> close(st, r.id, "Cancelled")
      [] OTHER -> st


(***************************************************************************)
(* Upstream record source.                                                 *)
(***************************************************************************)
\* the first index >= p of a record with block >= f, or 0 when there is none
NextIdx(c, p, f) ==
    LET S == {i \in p .. Len(c) : c[i].block >= f}
    IN IF S = {} THEN 0 ELSE CHOOSE i \in S : \A j \in S : i <= j

\* Bound::Latest: the head is a whole block at or after the start block, so
\* the bounded range ends on a block boundary
Heads(c, s) ==
    {h \in 0 .. Len(c) :
        /\ h < Len(c) => c[h + 1].block > (IF h = 0 THEN s ELSE c[h].block)}

ConfigOutcomes == {"ok", "missing_credentials", "connect_failed",
                   "missing_start_block", "bad_start_block", "bad_contract_id"}

LastRequest == requests[Len(requests)]

(***************************************************************************)
(* initialize_pangea_indexer and start_pangea_indexer.                     *)
(***************************************************************************)
NoCall == [op |-> "none"]

\* nothing spawned, nothing read, the book empty
Boot ==
    /\ config = "unread"
    /\ spawned = 0
    /\ initResult = "none"
    /\ pc = "init"
    /\ exitCause = "none"
    /\ last_processed_block = 0
    /\ head = 0
    /\ pos = 1
    /\ requests = << >>
    /\ decoded = << >>
    /\ applied = << >>
    /\ inFlight = {}
    /\ store = EmptyStore
    /\ hist = << EmptyStore >>
    /\ failures = 0
    /\ sleeps = << >>
    /\ rpc = "idle"
    /\ rbuy = << >>
    /\ lastRead = [op |-> "none", orders |-> << >>,
                   spread |-> [some |-> FALSE, v |-> 0, err |-> "none"]]
    /\ reads = 0
    /\ spc = "emit"
    /\ lastEmit = [some |-> FALSE, v |-> << >>]
    /\ eparity = 0
    /\ waits = 0

NoSub == [kind |-> "none", order_type |-> "-"]

Init ==
    /\ contract_start_block \in StartBlocks
    /\ chain \in Chains(contract_start_block)
    /\ Boot
    /\ call = NoCall
    /\ sub = NoSub

\* tokio::spawn of the one ingestion task, tasks.push, Ok(())
initialize_pangea_indexer ==
    /\ pc = "init"
    /\ spawned' = spawned + 1
    /\ initResult' = "Ok"
    /\ pc' = "start"
    /\ UNCHANGED << config, exitCause, last_processed_block, head, pos, requests,
                    decoded, applied, inFlight, store, hist, failures, sleeps >>
    /\ UNCHANGED envVars
    /\ UNCHANGED readVars

\* create_pangea_client()?, ev(..)?.parse()?, H256::from_str(..)?: any failure
\* returns Err to the spawned closure, which prints it and ends the task
start_pangea_indexer ==
    /\ pc = "start"
    /\ \E c \in ConfigOutcomes :
         /\ config' = c
         /\ IF c = "ok"
            THEN pc' = "hist_open" /\ exitCause' = exitCause
            ELSE pc' = "exited" /\ exitCause' = "config"
    /\ UNCHANGED << spawned, initResult, last_processed_block, head, pos, requests,
                    decoded, applied, inFlight, store, hist, failures, sleeps >>
    /\ UNCHANGED envVars
    /\ UNCHANGED readVars

(***************************************************************************)
(* fetch_historical_data.                                                  *)
(***************************************************************************)
\* from_block: Bound::Exact(contract_start_block), to_block: Bound::Latest
HistRequest(start) == [kind |-> "historical", from |-> start, to |-> "Latest"]

\* the bounded request is accepted; let mut last_processed_block = 0
HistOpen ==
    /\ pc = "hist_open"
    /\ requests' = Append(requests, HistRequest(contract_start_block))
    /\ \E h \in Heads(chain, contract_start_block) : head' = h
    /\ pos' = 1
    /\ last_processed_block' = 0
    /\ pc' = "hist_next"
    /\ UNCHANGED << config, spawned, initResult, exitCause, decoded, applied,
                    inFlight, store, hist, failures, sleeps >>
    /\ UNCHANGED envVars
    /\ UNCHANGED readVars

\* .expect("Failed to get fuel spark orders") on a failed request: the task panics
HistOpenFails ==
    /\ pc = "hist_open"
    /\ failures < MaxFail
    /\ failures' = failures + 1
    /\ requests' = Append(requests, HistRequest(contract_start_block))
    /\ pc' = "exited"
    /\ exitCause' = "panic"
    /\ UNCHANGED << config, spawned, initResult, last_processed_block, head, pos,
                    decoded, applied, inFlight, store, hist, sleeps >>
    /\ UNCHANGED envVars
    /\ UNCHANGED readVars

\* HistRecord without the assignment to the cursor
HistRecord_NoCursor ==
    /\ pc = "hist_next"
    /\ LET n == NextIdx(chain, pos, contract_start_block) IN
         /\ n # 0 /\ n <= head
         /\ pos' = n + 1
         /\ IF Decodes(chain[n])
            THEN /\ last_processed_block' = last_processed_block
                 /\ decoded' = Append(decoded, n)
                 /\ inFlight' = inFlight \cup {n}
                 /\ pc' = "hist_apply"
                 /\ exitCause' = exitCause
            ELSE /\ pc' = "exited"
                 /\ exitCause' = "decode"
                 /\ UNCHANGED << last_processed_block, decoded, inFlight >>
    /\ UNCHANGED << config, spawned, initResult, head, requests, applied, store,
                    hist, failures, sleeps >>
    /\ UNCHANGED envVars
    /\ UNCHANGED readVars

\* HistRecord with the applier started but not awaited
HistRecord_NoAwait ==
    /\ pc = "hist_next"
    /\ LET n == NextIdx(chain, pos, contract_start_block) IN
         /\ n # 0 /\ n <= head
         /\ pos' = n + 1
         /\ IF Decodes(chain[n])
            THEN /\ last_processed_block' = chain[n].block
                 /\ decoded' = Append(decoded, n)
                 /\ inFlight' = inFlight \cup {n}
                 /\ pc' = "hist_next"
                 /\ exitCause' = exitCause
            ELSE /\ pc' = "exited"
                 /\ exitCause' = "decode"
                 /\ UNCHANGED << last_processed_block, decoded, inFlight >>
    /\ UNCHANGED << config, spawned, initResult, head, requests, applied, store,
                    hist, failures, sleeps >>
    /\ UNCHANGED envVars
    /\ UNCHANGED readVars

\* Some(Ok(data)): decode with `?`, set the cursor, start handle_order_event
HistRecord ==
    /\ pc = "hist_next"
    /\ LET n == NextIdx(chain, pos, contract_start_block) IN
         /\ n # 0 /\ n <= head
         /\ pos' = n + 1
         /\ IF Decodes(chain[n])
            THEN /\ last_processed_block' = chain[n].block
                 /\ decoded' = Append(decoded, n)
                 /\ inFlight' = inFlight \cup {n}
                 /\ pc' = "hist_apply"
                 /\ exitCause' = exitCause
            ELSE /\ pc' = "exited"
                 /\ exitCause' = "decode"
                 /\ UNCHANGED << last_processed_block, decoded, inFlight >>
    /\ UNCHANGED << config, spawned, initResult, head, requests, applied, store,
                    hist, failures, sleeps >>
    /\ UNCHANGED envVars
    /\ UNCHANGED readVars

\* handle_order_event(order_book.clone(), order).await returns
HistApplied ==
    /\ pc = "hist_apply"
    /\ LET n == decoded[Len(decoded)] IN
         /\ store' = handle_order_event(store, chain[n])
         /\ hist' = Append(hist, store')
         /\ applied' = Append(applied, n)
         /\ inFlight' = inFlight \ {n}
    /\ pc' = "hist_next"
    /\ UNCHANGED << config, spawned, initResult, exitCause, last_processed_block,
                    head, pos, requests, decoded, failures, sleeps >>
    /\ UNCHANGED envVars
    /\ UNCHANGED readVars

\* HistError returning without the progress made
HistError_Discard ==
    /\ pc = "hist_next"
    /\ failures < MaxFail
    /\ failures' = failures + 1
    /\ last_processed_block' = 0
    /\ pc' = "handover"
    /\ UNCHANGED << config, spawned, initResult, exitCause, head, pos, requests,
                    decoded, applied, inFlight, store, hist, sleeps >>
    /\ UNCHANGED envVars
    /\ UNCHANGED readVars

\* Some(Err(e)): error!(..); break
HistError ==
    /\ pc = "hist_next"
    /\ failures < MaxFail
    /\ failures' = failures + 1
    /\ pc' = "handover"
    /\ UNCHANGED << config, spawned, initResult, exitCause, last_processed_block,
                    head, pos, requests, decoded, applied, inFlight, store, hist,
                    sleeps >>
    /\ UNCHANGED envVars
    /\ UNCHANGED readVars

\* None: the bounded range is exhausted
HistEnd ==
    /\ pc = "hist_next"
    /\ LET n == NextIdx(chain, pos, contract_start_block) IN n = 0 \/ n > head
    /\ pc' = "handover"
    /\ UNCHANGED << config, spawned, initResult, exitCause, last_processed_block,
                    head, pos, requests, decoded, applied, inFlight, store, hist,
                    failures, sleeps >>
    /\ UNCHANGED envVars
    /\ UNCHANGED readVars

\* ResumeBlock without the test on zero
ResumeBlock_AlwaysStart(last, start) == start

\* if last_processed_block == 0 { last_processed_block = contract_start_block; }
ResumeBlock(last, start) == IF last = 0 THEN start ELSE last

HandOver ==
    /\ pc = "handover"
    /\ last_processed_block' = ResumeBlock(last_processed_block, contract_start_block)
    /\ pc' = "live_open"
    /\ UNCHANGED << config, spawned, initResult, exitCause, head, pos, requests,
                    decoded, applied, inFlight, store, hist, failures, sleeps >>
    /\ UNCHANGED envVars
    /\ UNCHANGED readVars

(***************************************************************************)
(* listen_for_new_deltas.                                                  *)
(***************************************************************************)
\* from_block: Bound::Exact(last_processed_block + 1), to_block: Bound::Subscribe
LiveRequest(last) == [kind |-> "live", from |-> last + 1, to |-> "Subscribe"]

LiveOpen ==
    /\ pc = "live_open"
    /\ requests' = Append(requests, LiveRequest(last_processed_block))
    /\ pos' = 1
    /\ pc' = "live_next"
    /\ UNCHANGED << config, spawned, initResult, exitCause, last_processed_block,
                    head, decoded, applied, inFlight, store, hist, failures, sleeps >>
    /\ UNCHANGED envVars
    /\ UNCHANGED readVars

\* .expect("Failed to get fuel spark deltas") on a failed request: the task panics
LiveOpenFails ==
    /\ pc = "live_open"
    /\ failures < MaxFail
    /\ failures' = failures + 1
    /\ requests' = Append(requests, LiveRequest(last_processed_block))
    /\ pc' = "exited"
    /\ exitCause' = "panic"
    /\ UNCHANGED << config, spawned, initResult, last_processed_block, head, pos,
                    decoded, applied, inFlight, store, hist, sleeps >>
    /\ UNCHANGED envVars
    /\ UNCHANGED readVars

\* LiveRecord with the applier started but not awaited
LiveRecord_NoAwait ==
    /\ pc = "live_next"
    /\ LET n == NextIdx(chain, pos, LastRequest.from) IN
         /\ n # 0
         /\ pos' = n + 1
         /\ IF Decodes(chain[n])
            THEN /\ last_processed_block' = chain[n].block
                 /\ decoded' = Append(decoded, n)
                 /\ inFlight' = inFlight \cup {n}
                 /\ pc' = "live_next"
                 /\ exitCause' = exitCause
            ELSE /\ pc' = "exited"
                 /\ exitCause' = "decode"
                 /\ UNCHANGED << last_processed_block, decoded, inFlight >>
    /\ UNCHANGED << config, spawned, initResult, head, requests, applied, store,
                    hist, failures, sleeps >>
    /\ UNCHANGED envVars
    /\ UNCHANGED readVars

\* Some(Ok(data)): decode with `?`, set the cursor, start handle_order_event
\* LiveRecord keeping the larger of the cursor and the record's block
LiveRecord_KeepMax ==
    /\ pc = "live_next"
    /\ LET n == NextIdx(chain, pos, LastRequest.from) IN
         /\ n # 0
         /\ pos' = n + 1
         /\ IF Decodes(chain[n])
            THEN /\ last_processed_block' = IF chain[n].block > last_processed_block
                                            THEN chain[n].block
                                            ELSE last_processed_block
                 /\ decoded' = Append(decoded, n)
                 /\ inFlight' = inFlight \cup {n}
                 /\ pc' = "live_apply"
                 /\ exitCause' = exitCause
            ELSE /\ pc' = "exited"
                 /\ exitCause' = "decode"
                 /\ UNCHANGED << last_processed_block, decoded, inFlight >>
    /\ UNCHANGED << config, spawned, initResult, head, requests, applied, store,
                    hist, failures, sleeps >>
    /\ UNCHANGED envVars
    /\ UNCHANGED readVars

LiveRecord ==
    /\ pc = "live_next"
    /\ LET n == NextIdx(chain, pos, LastRequest.from) IN
         /\ n # 0
         /\ pos' = n + 1
         /\ IF Decodes(chain[n])
            THEN /\ last_processed_block' = chain[n].block
                 /\ decoded' = Append(decoded, n)
                 /\ inFlight' = inFlight \cup {n}
                 /\ pc' = "live_apply"
                 /\ exitCause' = exitCause
            ELSE /\ pc' = "exited"
                 /\ exitCause' = "decode"
                 /\ UNCHANGED << last_processed_block, decoded, inFlight >>
    /\ UNCHANGED << config, spawned, initResult, head, requests, applied, store,
                    hist, failures, sleeps >>
    /\ UNCHANGED envVars
    /\ UNCHANGED readVars

\* handle_order_event(order_book.clone(), order).await returns
LiveApplied ==
    /\ pc = "live_apply"
    /\ LET n == decoded[Len(decoded)] IN
         /\ store' = handle_order_event(store, chain[n])
         /\ hist' = Append(hist, store')
         /\ applied' = Append(applied, n)
         /\ inFlight' = inFlight \ {n}
    /\ pc' = "live_next"
    /\ UNCHANGED << config, spawned, initResult, exitCause, last_processed_block,
                    head, pos, requests, decoded, failures, sleeps >>
    /\ UNCHANGED envVars
    /\ UNCHANGED readVars

\* Some(Err(e)): error!(..); break
LiveError ==
    /\ pc = "live_next"
    /\ failures < MaxFail
    /\ failures' = failures + 1
    /\ pc' = "backoff"
    /\ UNCHANGED << config, spawned, initResult, exitCause, last_processed_block,
                    head, pos, requests, decoded, applied, inFlight, store, hist,
                    sleeps >>
    /\ UNCHANGED envVars
    /\ UNCHANGED readVars

\* None: the connection dropped and the stream closed
LiveClosed ==
    /\ pc = "live_next"
    /\ failures < MaxFail
    /\ failures' = failures + 1
    /\ pc' = "closed"
    /\ UNCHANGED << config, spawned, initResult, exitCause, last_processed_block,
                    head, pos, requests, decoded, applied, inFlight, store, hist,
                    sleeps >>
    /\ UNCHANGED envVars
    /\ UNCHANGED readVars

\* Duration::from_secs(1)
BackoffSecs == 1

\* Backoff with the wait doubled at every retry
Backoff_Doubling ==
    /\ pc \in {"backoff", "closed"}
    /\ sleeps' = Append(sleeps, 2 ^ Len(sleeps))
    /\ pc' = "live_open"
    /\ UNCHANGED << config, spawned, initResult, exitCause, last_processed_block,
                    head, pos, requests, decoded, applied, inFlight, store, hist,
                    failures >>
    /\ UNCHANGED envVars
    /\ UNCHANGED readVars

\* info!("Reconnecting.."); tokio::time::sleep(1 s).await; back to the loop head
Backoff ==
    /\ pc \in {"backoff", "closed"}
    /\ sleeps' = Append(sleeps, BackoffSecs)
    /\ pc' = "live_open"
    /\ UNCHANGED << config, spawned, initResult, exitCause, last_processed_block,
                    head, pos, requests, decoded, applied, inFlight, store, hist,
                    failures >>
    /\ UNCHANGED envVars
    /\ UNCHANGED readVars

(***************************************************************************)
(* Read side: Query::spread and Query::all_orders.                         *)
(***************************************************************************)
IdSeq == << "A", "B" >>

RECURSIVE SelectActive(_, _, _)
SelectActive(st, side, i) ==
    IF i > Len(IdSeq) THEN << >>
    ELSE LET o == st.orders[IdSeq[i]]
             rest == SelectActive(st, side, i + 1)
         IN IF o.status = "Active" /\ o.side = side
            THEN << [id |-> IdSeq[i], price |-> o.price, status |-> o.status] >> \o rest
            ELSE rest

RECURSIVE ByPrice(_)
ByPrice(q) ==
    IF Len(q) <= 1 THEN q
    ELSE LET m == CHOOSE i \in 1 .. Len(q) :
                     \A j \in 1 .. Len(q) :
                        q[i].price < q[j].price \/ (q[i].price = q[j].price /\ i <= j)
         IN << q[m] >> \o ByPrice(SubSeq(q, 1, m - 1) \o SubSeq(q, m + 1, Len(q)))

\* order_book.get_orders_in_range(0, u128::MAX, side)
get_orders_in_range(st, side) == ByPrice(SelectActive(st, side, 1))

Prices(q) == {q[i].price : i \in 1 .. Len(q)}

Max(S) == CHOOSE x \in S : \A y \in S : y <= x

Min(S) == CHOOSE x \in S : \A y \in S : x <= y

PriceModulus == 2 ^ PriceBits

\* `price as i128`: the same bits read as a signed number
as_i128(x) == IF x >= PriceModulus \div 2 THEN x - PriceModulus ELSE x

\* the i128 subtraction leaves the signed range
sub_overflows(a, b) ==
    a - b < 0 - PriceModulus \div 2 \/ a - b > PriceModulus \div 2 - 1

\* the i128 subtraction of a build without overflow checks
wrapping_sub(a, b) ==
    ((a - b + PriceModulus \div 2) % PriceModulus) - PriceModulus \div 2

NoSpread == [some |-> FALSE, v |-> 0, err |-> "none"]

\* (min_sell as i128 - max_buy as i128).to_string(), None when a side is empty;
\* `checks` says whether the build panics on arithmetic overflow
spread(buy, sell, checks) ==
    IF buy # << >> /\ sell # << >>
    THEN LET min_sell == as_i128(Min(Prices(sell)))
             max_buy == as_i128(Max(Prices(buy)))
         IN IF checks /\ sub_overflows(min_sell, max_buy)
            THEN [some |-> FALSE, v |-> 0, err |-> "overflow"]
            ELSE [some |-> TRUE, v |-> wrapping_sub(min_sell, max_buy), err |-> "none"]
    ELSE NoSpread

ToOrder(o, order_type) ==
    [id |-> o.id, price |-> o.price, order_type |-> order_type, status |-> o.status]

Tagged(q, order_type) == [i \in 1 .. Len(q) |-> ToOrder(q[i], order_type)]

\* all_orders.extend(buy..); all_orders.extend(sell..)
all_orders_union(buy, sell) == Tagged(buy, "Buy") \o Tagged(sell, "Sell")

I32Max == 2147483647

NoneArg == [some |-> FALSE, v |-> 0]

SomeArg(n) == [some |-> TRUE, v |-> n]

unwrap_or(a, d) == IF a.some THEN a.v ELSE d

\* as_usize with a negative number clamped to zero
as_usize_Clamped(n) == IF n < 0 THEN 0 ELSE n

\* `n as usize` of an i32: a negative number sign-extends to a huge count
as_usize(n) == IF n < 0 THEN n + 2 ^ UsizeBits ELSE n

\* `len as i32` of a usize
as_i32(n) == IF n > I32Max THEN n - I32Max - 1 - I32Max - 1 ELSE n

\* Iterator::skip
Skip(q, n) == IF n >= Len(q) THEN << >> ELSE SubSeq(q, n + 1, Len(q))

\* Iterator::take
Take(q, n) == IF n >= Len(q) THEN q ELSE SubSeq(q, 1, n)

\* offset.unwrap_or(0) as usize, limit.unwrap_or(len as i32) as usize,
\* .into_iter().skip(offset).take(limit).collect()
paginate(q, limit, offset) ==
    Take(Skip(q, as_usize(unwrap_or(offset, 0))),
         as_usize(unwrap_or(limit, as_i32(Len(q)))))

\* all_orders with each side paginated before the two are joined
all_orders_PerSide(buy, sell, limit, offset) ==
    paginate(Tagged(buy, "Buy"), limit, offset) \o paginate(Tagged(sell, "Sell"), limit, offset)

\* Query::all_orders
all_orders(buy, sell, limit, offset) ==
    paginate(all_orders_union(buy, sell), limit, offset)

\* trade_events with take before skip
trade_events_TakeFirst(events, limit, offset) ==
    Skip(Take(events, as_usize(unwrap_or(limit, as_i32(Len(events))))),
         as_usize(unwrap_or(offset, 0)))

\* Query::trade_events
trade_events(events, limit, offset) == paginate(events, limit, offset)

\* first store read of a two-sided query: the buy side
spread_buy ==
    /\ rpc = "idle"
    /\ initResult = "Ok"
    /\ reads < MaxReads
    /\ rbuy' = get_orders_in_range(store, "Buy")
    /\ rpc' = "spread"
    /\ UNCHANGED << lastRead, reads, config, spawned, initResult >>
    /\ UNCHANGED pipeVars
    /\ UNCHANGED subVars
    /\ UNCHANGED envVars

\* second store read and the result
spread_sell ==
    /\ rpc = "spread"
    /\ \E checks \in BOOLEAN :
         lastRead' = [op |-> "spread", orders |-> << >>,
                      spread |-> spread(rbuy, get_orders_in_range(store, "Sell"), checks)]
    /\ reads' = reads + 1
    /\ rpc' = "idle"
    /\ rbuy' = << >>
    /\ UNCHANGED << config, spawned, initResult >>
    /\ UNCHANGED pipeVars
    /\ UNCHANGED subVars
    /\ UNCHANGED envVars

all_orders_buy ==
    /\ rpc = "idle"
    /\ initResult = "Ok"
    /\ reads < MaxReads
    /\ rbuy' = get_orders_in_range(store, "Buy")
    /\ rpc' = "all_orders"
    /\ UNCHANGED << lastRead, reads, config, spawned, initResult >>
    /\ UNCHANGED pipeVars
    /\ UNCHANGED subVars
    /\ UNCHANGED envVars

\* all_orders_sell answering with an error once the ingestion task has ended
all_orders_sell_FailsWhenStopped ==
    /\ rpc = "all_orders"
    /\ lastRead' = IF pc = "exited"
                   THEN [op |-> "all_orders", orders |-> << >>,
                         spread |-> [some |-> FALSE, v |-> 0, err |-> "ingestion"]]
                   ELSE [op |-> "all_orders",
                         orders |-> all_orders(rbuy, get_orders_in_range(store, "Sell"),
                                               NoneArg, NoneArg),
                         spread |-> NoSpread]
    /\ reads' = reads + 1
    /\ rpc' = "idle"
    /\ rbuy' = << >>
    /\ UNCHANGED << config, spawned, initResult >>
    /\ UNCHANGED pipeVars
    /\ UNCHANGED subVars
    /\ UNCHANGED envVars

all_orders_sell ==
    /\ rpc = "all_orders"
    /\ lastRead' = [op |-> "all_orders",
                    orders |-> all_orders(rbuy, get_orders_in_range(store, "Sell"),
                                          NoneArg, NoneArg),
                    spread |-> NoSpread]
    /\ reads' = reads + 1
    /\ rpc' = "idle"
    /\ rbuy' = << >>
    /\ UNCHANGED << config, spawned, initResult >>
    /\ UNCHANGED pipeVars
    /\ UNCHANGED subVars
    /\ UNCHANGED envVars

\* the ingestion task
Next ==
    \/ initialize_pangea_indexer
    \/ start_pangea_indexer
    \/ HistOpen
    \/ HistOpenFails
    \/ HistRecord
    \/ HistApplied
    \/ HistError
    \/ HistEnd
    \/ HandOver
    \/ LiveOpen
    \/ LiveOpenFails
    \/ LiveRecord
    \/ LiveApplied
    \/ LiveError
    \/ LiveClosed
    \/ Backoff

Spec == Init /\ [][Next]_vars

\* the ingestion task and a reader task side by side
ServePayloads == {OpenA, OpenB, FillA, CancelB}

ServeInit ==
    /\ Init
    /\ contract_start_block = 100
    /\ \A i \in 1 .. Len(chain) : WithBlock(chain[i], 0) \in RecordsFrom(0) \cap
                                     {WithBlock(p, 0) : p \in ServePayloads}

ServeNext ==
    \/ Next
    \/ spread_buy
    \/ spread_sell
    \/ all_orders_buy
    \/ all_orders_sell

ServeSpec == ServeInit /\ [][ServeNext]_vars

(***************************************************************************)
(* The queries called on their own, on every input within the bounds.      *)
(***************************************************************************)
AllPrices == 0 .. PriceModulus - 1

EdgePrices == {0, 1, PriceModulus \div 2 - 1, PriceModulus \div 2, PriceModulus - 1}

PricedOrder(x) == [id |-> "x", price |-> x, status |-> "Active"]

\* one side as the store returns it: any one price, or two of the edge prices
PricedSides ==
    {<< >>} \cup {<< PricedOrder(x) >> : x \in AllPrices}
            \cup {<< PricedOrder(x), PricedOrder(y) >> : x \in EdgePrices, y \in EdgePrices}

OrderAt(side, i) == [id |-> << side, i >>, price |-> i, status |-> "Active"]

SideOf(side, n) == [i \in 1 .. n |-> OrderAt(side, i)]

TradeAt(i) == [id |-> << "T", i >>, price |-> i, block |-> 100 + i]

LogOf(n) == [i \in 1 .. n |-> TradeAt(i)]

\* Option<i32>: absent, negative, zero, inside and beyond the sequence
PageArgs == {NoneArg} \cup {SomeArg(n) : n \in -2 .. 2 * MaxSide + 1}

Calls ==
    {[op |-> "spread", buy |-> b, sell |-> a, events |-> << >>,
      limit |-> NoneArg, offset |-> NoneArg] : b \in PricedSides, a \in PricedSides}
    \cup
    {[op |-> "all_orders", buy |-> SideOf("Buy", nb), sell |-> SideOf("Sell", ns),
      events |-> << >>, limit |-> l, offset |-> o] :
        nb \in 0 .. MaxSide, ns \in 0 .. MaxSide, l \in PageArgs, o \in PageArgs}
    \cup
    {[op |-> "trade_events", buy |-> << >>, sell |-> << >>, events |-> LogOf(n),
      limit |-> l, offset |-> o] :
        n \in 0 .. 2 * MaxSide, l \in PageArgs, o \in PageArgs}

QueryInit ==
    /\ contract_start_block = 100
    /\ chain = << >>
    /\ Boot
    /\ call \in Calls
    /\ sub = NoSub

QuerySpread ==
    /\ call.op = "spread"
    /\ lastRead.op = "none"
    /\ \E checks \in BOOLEAN :
         lastRead' = [op |-> "spread", orders |-> << >>,
                      spread |-> spread(call.buy, call.sell, checks)]
    /\ reads' = reads + 1
    /\ UNCHANGED << rpc, rbuy, config, spawned, initResult >>
    /\ UNCHANGED pipeVars
    /\ UNCHANGED subVars
    /\ UNCHANGED envVars

QueryAllOrders ==
    /\ call.op = "all_orders"
    /\ lastRead.op = "none"
    /\ lastRead' = [op |-> "all_orders",
                    orders |-> all_orders(call.buy, call.sell, call.limit, call.offset),
                    spread |-> NoSpread]
    /\ reads' = reads + 1
    /\ UNCHANGED << rpc, rbuy, config, spawned, initResult >>
    /\ UNCHANGED pipeVars
    /\ UNCHANGED subVars
    /\ UNCHANGED envVars

QueryTradeEvents ==
    /\ call.op = "trade_events"
    /\ lastRead.op = "none"
    /\ lastRead' = [op |-> "trade_events",
                    orders |-> trade_events(call.events, call.limit, call.offset),
                    spread |-> NoSpread]
    /\ reads' = reads + 1
    /\ UNCHANGED << rpc, rbuy, config, spawned, initResult >>
    /\ UNCHANGED pipeVars
    /\ UNCHANGED subVars
    /\ UNCHANGED envVars

QueryNext ==
    \/ QuerySpread
    \/ QueryAllOrders
    \/ QueryTradeEvents

QuerySpec == QueryInit /\ [][QueryNext]_vars

(***************************************************************************)
(* Subscription::active_orders and Subscription::trade_events beside the   *)
(* ingestion task.                                                         *)
(***************************************************************************)
\* order_book.get_trade_events()
get_trade_events(st) == st.trades

Subs == {[kind |-> "active_orders", order_type |-> t] : t \in {"Buy", "Sell", "buy"}}
        \cup {[kind |-> "trade_events", order_type |-> "-"]}

\* match order_type.as_str() { "Buy" => .., "Sell" => .., _ => vec![] }, then
\* the map to Order with order_type.clone()
active_orders_snapshot(st, order_type) ==
    IF order_type \in {"Buy", "Sell"}
    THEN Tagged(get_orders_in_range(st, order_type), order_type)
    ELSE << >>

\* the value one turn of the loop yields
SubSnapshot(st, sb) ==
    IF sb.kind = "active_orders"
    THEN active_orders_snapshot(st, sb.order_type)
    ELSE get_trade_events(st)

\* SubEmit for a stream that ends with the ingestion task
SubEmit_WhileIngesting ==
    /\ sub # NoSub
    /\ spc = "emit"
    /\ pc # "exited"
    /\ lastEmit' = [some |-> TRUE, v |-> SubSnapshot(store, sub)]
    /\ eparity' = 1 - eparity
    /\ waits' = 0
    /\ spc' = "sleep"
    /\ UNCHANGED << sub, rpc, rbuy, lastRead, reads, config, spawned, initResult >>
    /\ UNCHANGED pipeVars
    /\ UNCHANGED envVars

\* the read of the store and the yield
SubEmit ==
    /\ sub # NoSub
    /\ spc = "emit"
    /\ lastEmit' = [some |-> TRUE, v |-> SubSnapshot(store, sub)]
    /\ eparity' = 1 - eparity
    /\ waits' = 0
    /\ spc' = "sleep"
    /\ UNCHANGED << sub, rpc, rbuy, lastRead, reads, config, spawned, initResult >>
    /\ UNCHANGED pipeVars
    /\ UNCHANGED envVars

\* time::sleep(Duration::from_secs(1)).await, then the loop starts over
SubWait ==
    /\ sub # NoSub
    /\ spc = "sleep"
    /\ waits' = waits + 1
    /\ spc' = "emit"
    /\ UNCHANGED << sub, lastEmit, eparity, rpc, rbuy, lastRead, reads, config,
                    spawned, initResult >>
    /\ UNCHANGED pipeVars
    /\ UNCHANGED envVars

\* the records all belong to the block after the start block: the bounded
\* range holds all of them or none, and block numbers play no part here
SubInit ==
    /\ contract_start_block = 100
    /\ chain \in Chains(contract_start_block)
    /\ \A i \in 1 .. Len(chain) : chain[i] \in
                                     {WithBlock(p, contract_start_block + 1) : p \in ServePayloads}
    /\ Boot
    /\ call = NoCall
    /\ sub \in Subs

SubNext ==
    \/ Next
    \/ SubEmit
    \/ SubWait

\* the runtime polls a subscription's stream as long as its client is
\* connected, and a timer that was set fires
SubSpec == SubInit /\ [][SubNext]_vars /\ WF_vars(SubEmit) /\ WF_vars(SubWait)

(***************************************************************************)
(* The backfill scenario: start block 100, A opens at 101, A fills with a  *)
(* trade at 103, B opens at 105.                                           *)
(***************************************************************************)
ScenarioChain == << WithBlock(OpenA, 101), WithBlock(FillA, 103), WithBlock(OpenB, 105) >>

ScenarioInit ==
    /\ contract_start_block = 100
    /\ chain = ScenarioChain
    /\ Boot
    /\ call = NoCall
    /\ sub = NoSub

ScenarioSpec == ScenarioInit /\ [][Next]_vars

(***************************************************************************)
(* The ingestion task on an upstream that keeps to the requested range but *)
(* not to block order.                                                     *)
(***************************************************************************)
AnyPayloads == {OpenA, OpenB, BadJson}

AnyRecords(s) == {WithBlock(p, b) : p \in AnyPayloads, b \in s .. s + MaxOff + 1}

AnyChains(s) == UNION {{c \in [1 .. n -> AnyRecords(s)] : Distinct(c)}
                       : n \in 0 .. MaxChain}

AnyInit ==
    /\ contract_start_block \in StartBlocks
    /\ chain \in AnyChains(contract_start_block)
    /\ Boot
    /\ call = NoCall
    /\ sub = NoSub

AnySpec == AnyInit /\ [][Next]_vars

(***************************************************************************)
(* Properties.                                                             *)
(***************************************************************************)
AppliedSet == {applied[i] : i \in 1 .. Len(applied)}

\* the read `op` would return on store state st
ReadOn(st, op) ==
    LET buy == get_orders_in_range(st, "Buy")
        sell == get_orders_in_range(st, "Sell")
    IN IF op = "spread"
       THEN [op |-> op, orders |-> << >>, spread |-> spread(buy, sell, FALSE)]
       ELSE [op |-> op, orders |-> all_orders_union(buy, sell), spread |-> NoSpread]

\* C1: a malformed record is only dropped: the ingestion task never ends
\* because a record failed to decode.
C1_MalformedRecordOnlyDropped == ~(pc = "exited" /\ exitCause = "decode")

\* C2: no transport failure (a request that fails to open, an error item, a
\* closed stream) ends the ingestion task.
C2_NoTerminalState == ~(pc = "exited" /\ exitCause = "panic")

\* C3: after a live stream broke and the next live request was issued, that
\* request starts right after the cursor and every decodable upstream record
\* between the previous live request's start and the new one has been applied.
C3_NoLossAcrossDisconnect ==
    (pc = "live_next" /\ pos = 1 /\ Len(requests) >= 3) =>
        LET prev == requests[Len(requests) - 1]
            cur == LastRequest
        IN /\ cur.from = last_processed_block + 1
           /\ \A i \in 1 .. Len(chain) :
                 (Decodes(chain[i]) /\ chain[i].block >= prev.from
                    /\ chain[i].block < cur.from) => i \in AppliedSet

\* C4: when the first live request is issued after a backfill that processed
\* records up to block B, it starts at B + 1 and every decodable upstream
\* record of a block <= B has been applied, each once.
C4_ContinuousHandOver ==
    (pc = "live_next" /\ pos = 1 /\ Len(requests) = 2 /\ decoded # << >>) =>
        /\ LastRequest.from = last_processed_block + 1
        /\ \A i \in 1 .. Len(chain) :
              (Decodes(chain[i]) /\ chain[i].block <= last_processed_block)
                 => i \in AppliedSet
        /\ \A i, j \in 1 .. Len(applied) : i # j => applied[i] # applied[j]

\* C5: when backfill saw no record, the first live request starts at the
\* configured start block.
C5_EmptyBackfillResumesAtStart ==
    (Len(requests) = 2 /\ decoded = << >>) =>
        requests[2].from = contract_start_block

C7_SnapshotIsolation ==
    lastRead.op # "none" =>
        \E k \in 1 .. Len(hist) : lastRead = ReadOn(hist[k], lastRead.op)

\* C8: records are applied one at a time in arrival order: the i-th applier
\* call is for the i-th decoded record, at most one record is decoded and not
\* yet applied, none is pending when the next record is taken, and no record
\* is applied out of order or twice.
C8_AppliedInArrivalOrder ==
    /\ Len(applied) <= Len(decoded)
    /\ \A i \in 1 .. Len(applied) : applied[i] = decoded[i]
    /\ Len(decoded) - Len(applied) <= 1
    /\ pc \in {"hist_next", "live_next", "handover", "live_open", "backoff", "closed"}
          => applied = decoded
    /\ \A i, j \in 1 .. Len(applied) : i < j => applied[i] < applied[j]

\* two records applied in backfill, none pending
C8_Witness ==
    /\ pc = "hist_next"
    /\ Len(applied) = 2
    /\ applied = decoded
    /\ Len(requests) = 1

\* C9: one ingestion task is started, the bounded request comes first and is
\* the only one, and at most one event application is in progress, whatever
\* the reader does.
C9_SingleWriter ==
    /\ spawned <= 1
    /\ pc # "init" => spawned = 1
    /\ Cardinality(inFlight) <= 1
    /\ \A i \in 1 .. Len(requests) : (requests[i].kind = "historical") <=> (i = 1)

\* a read is between its two store reads while a live record is being applied
C9_Witness ==
    /\ rpc # "idle"
    /\ pc = "live_apply"
    /\ Cardinality(inFlight) = 1
    /\ spawned = 1

\* C10: when the configuration cannot be read the caller of
\* initialize_pangea_indexer is told so.
C10_ConfigErrorIsFatal ==
    config \notin {"unread", "ok"} => initResult # "Ok"

\* the buy orders followed by the sell orders, element by element
BuyThenSell(buy, sell) ==
    [i \in 1 .. Len(buy) + Len(sell) |->
        IF i <= Len(buy)
        THEN [id |-> buy[i].id, price |-> buy[i].price, order_type |-> "Buy",
              status |-> buy[i].status]
        ELSE [id |-> sell[i - Len(buy)].id, price |-> sell[i - Len(buy)].price,
              order_type |-> "Sell", status |-> sell[i - Len(buy)].status]]

\* the elements of q at positions off .. off + lim - 1, counted from 0
Window(q, off, lim) ==
    LET n == IF off >= Len(q) THEN 0
             ELSE IF off + lim > Len(q) THEN Len(q) - off ELSE lim
    IN [i \in 1 .. n |-> q[off + i]]

NonNegative(a) == a.some => a.v >= 0

\* C11: spread is the lowest sell price minus the highest buy price, as a
\* signed number, for all prices of the unsigned range, and is absent exactly
\* when a side is empty.
C11_SpreadIsSignedDifference ==
    (call.op = "spread" /\ lastRead.op = "spread") =>
        IF call.buy = << >> \/ call.sell = << >>
        THEN lastRead.spread = NoSpread
        ELSE lastRead.spread =
                [some |-> TRUE, err |-> "none",
                 v |-> Min(Prices(call.sell)) - Max(Prices(call.buy))]

\* C12: for offset >= 0 and limit >= 0 (absent offset: 0, absent limit: no
\* cap) all_orders returns the elements at positions offset .. offset+limit-1
\* of the buy orders followed by the sell orders.
C12_AllOrdersPage ==
    (call.op = "all_orders" /\ lastRead.op = "all_orders"
        /\ NonNegative(call.limit) /\ NonNegative(call.offset)) =>
        LET all == BuyThenSell(call.buy, call.sell)
        IN lastRead.orders =
              Window(all, IF call.offset.some THEN call.offset.v ELSE 0,
                          IF call.limit.some THEN call.limit.v ELSE Len(all))

\* a page that starts on the buy side and ends on the sell side
C12_Witness ==
    /\ call.op = "all_orders" /\ lastRead.op = "all_orders"
    /\ call.offset = SomeArg(1) /\ call.limit = SomeArg(2)
    /\ Len(call.buy) = 2 /\ Len(call.sell) = 2
    /\ Len(lastRead.orders) = 2
    /\ lastRead.orders[1].order_type = "Buy"
    /\ lastRead.orders[2].order_type = "Sell"

\* C13: for offset >= 0 and limit >= 0 (absent offset: 0, absent limit: the
\* whole remaining log) trade_events returns the elements at positions
\* offset .. offset+limit-1 of the trade log, in the log's order.
C13_TradeEventsPage ==
    (call.op = "trade_events" /\ lastRead.op = "trade_events"
        /\ NonNegative(call.limit) /\ NonNegative(call.offset)) =>
        lastRead.orders =
            Window(call.events, IF call.offset.some THEN call.offset.v ELSE 0,
                                IF call.limit.some THEN call.limit.v ELSE Len(call.events))

\* the second and third of four trades, oldest first
C13_Witness ==
    /\ call.op = "trade_events" /\ lastRead.op = "trade_events"
    /\ call.offset = SomeArg(1) /\ call.limit = SomeArg(2)
    /\ Len(call.events) = 4
    /\ lastRead.orders = << TradeAt(2), TradeAt(3) >>

\* C20: in all_orders and trade_events a negative offset gives an empty
\* result and a negative limit gives every element from the offset onward.
C20_NegativeArguments ==
    (call.op \in {"all_orders", "trade_events"} /\ lastRead.op = call.op) =>
        LET all == IF call.op = "all_orders"
                   THEN BuyThenSell(call.buy, call.sell) ELSE call.events
        IN /\ (call.offset.some /\ call.offset.v < 0) => lastRead.orders = << >>
           /\ (call.limit.some /\ call.limit.v < 0 /\ NonNegative(call.offset)) =>
                 lastRead.orders =
                    Window(all, IF call.offset.some THEN call.offset.v ELSE 0, Len(all))

\* a negative limit with offset 1: everything but the first element comes back
C20_Witness ==
    /\ call.op = "all_orders" /\ lastRead.op = "all_orders"
    /\ call.limit = SomeArg(-1) /\ call.offset = SomeArg(1)
    /\ Len(call.buy) = 2 /\ Len(call.sell) = 1
    /\ Len(lastRead.orders) = 2

\* v is the whole of what subscription sb covers in store st: the trade log,
\* or every active order of the side, each once, tagged with order_type
IsFullSnapshot(v, st, sb) ==
    IF sb.kind = "trade_events"
    THEN v = st.trades
    ELSE LET S == {i \in Ids : st.orders[i].status = "Active"
                                /\ st.orders[i].side = sb.order_type}
         IN /\ Len(v) = Cardinality(S)
            /\ {v[k].id : k \in 1 .. Len(v)} = S
            /\ \A k \in 1 .. Len(v) :
                  v[k] = [id |-> v[k].id, price |-> st.orders[v[k].id].price,
                          order_type |-> sb.order_type, status |-> "Active"]

\* C14: every emission of a subscription is the full snapshot of the store
\* at that moment, one wait separates two emissions, an emission follows
\* every wait, and the subscription goes on emitting for ever, whatever
\* became of the ingestion task.
C14_SubscriptionEmitsSnapshots ==
    /\ [][eparity' # eparity =>
            /\ lastEmit'.some
            /\ IsFullSnapshot(lastEmit'.v, store, sub)
            /\ lastEmit.some => waits = 1]_vars
    /\ [](waits <= 1)
    /\ []<>(eparity = 0)
    /\ []<>(eparity = 1)

\* a second (or later) emission, not empty, made after the ingestion task ended
C14_Witness ==
    /\ pc = "exited"
    /\ spc = "sleep"
    /\ eparity = 0
    /\ lastEmit.some
    /\ lastEmit.v # << >>

\* C15: once the historical stream has delivered the three records of the
\* scenario and backfill is over, the three were applied once each in that
\* order, the cursor is 105, A is Filled, B is Active and the trade log holds
\* one entry, of block 103.
C15_BackfillScenario ==
    (pc \in {"handover", "live_open"} /\ Len(requests) = 1 /\ head = 3 /\ pos = 4) =>
        /\ applied = << 1, 2, 3 >>
        /\ last_processed_block = 105
        /\ store.orders["A"].status = "Filled"
        /\ store.orders["B"].status = "Active"
        /\ Len(store.trades) = 1
        /\ store.trades[1].block = 103

\* backfill over with all three records delivered and no transport failure
C15_Witness ==
    /\ chain = ScenarioChain
    /\ pc = "live_open"
    /\ Len(requests) = 1
    /\ head = 3 /\ pos = 4
    /\ failures = 0
    /\ Len(applied) = 3

\* the historical stream ended on an error after at least one decoded record
\* and no live request has been issued yet
BackfillCutShort ==
    /\ pc \in {"handover", "live_open"}
    /\ Len(requests) = 1
    /\ failures > 0
    /\ decoded # << >>

\* the first live request has just been accepted after such a backfill
FirstLiveAfterCut ==
    /\ pc = "live_next" /\ pos = 1
    /\ Len(requests) = 2
    /\ failures > 0
    /\ decoded # << >>

LastDecodedBlock == chain[decoded[Len(decoded)]].block

\* C16: when the historical stream yields an error after at least one record,
\* backfill stops with the cursor at the block of the last record processed,
\* no historical request is issued again, and the first live request starts at
\* that cursor + 1.
C16_BackfillErrorKeepsProgress ==
    /\ BackfillCutShort => last_processed_block = LastDecodedBlock
    /\ FirstLiveAfterCut =>
          /\ LastRequest.kind = "live"
          /\ LastRequest.from = LastDecodedBlock + 1
          /\ last_processed_block = LastDecodedBlock
    /\ \A i \in 2 .. Len(requests) : requests[i].kind = "live"

C16_Witness ==
    /\ FirstLiveAfterCut
    /\ failures = 1
    /\ LastDecodedBlock > contract_start_block
    /\ LastRequest.from = LastDecodedBlock + 1

\* live requests issued so far
LiveRequests == IF requests = << >> THEN 0 ELSE Len(requests) - 1

\* C17: one bounded historical request comes first and is over before any live
\* request; every later request is an open-ended live request that starts at
\* the cursor + 1 when it is issued; each live request after the first follows
\* exactly one back-off wait since the previous live stream ended, and every
\* wait has the same length however many retries there were.
C17_RequestOrder ==
    /\ requests # << >> => requests[1] = [kind |-> "historical",
                                           from |-> contract_start_block,
                                           to |-> "Latest"]
    /\ \A i \in 2 .. Len(requests) :
          requests[i].kind = "live" /\ requests[i].to = "Subscribe"
    /\ Len(requests) >= 2 =>
          pc \notin {"hist_open", "hist_next", "hist_apply", "handover"}
    /\ (pc = "live_next" /\ pos = 1) => LastRequest.from = last_processed_block + 1
    /\ pc \in {"live_next", "live_apply", "backoff", "closed"} =>
          Len(sleeps) = LiveRequests - 1
    /\ pc = "live_open" => Len(sleeps) = LiveRequests
    /\ \A i \in 1 .. Len(sleeps) : sleeps[i] = 1

\* the live request has been issued again after MaxFail stream failures
C17_Witness ==
    /\ pc = "live_next" /\ pos = 1
    /\ failures = MaxFail
    /\ Len(requests) = MaxFail + 2
    /\ Len(sleeps) = MaxFail
    /\ LastRequest.from > contract_start_block + 1

\* the read op with the buy side taken from store state sb and the sell side
\* from store state ss
ReadFrom(sb, ss, op) ==
    LET buy == get_orders_in_range(sb, "Buy")
        sell == get_orders_in_range(ss, "Sell")
    IN IF op = "spread"
       THEN [op |-> op, orders |-> << >>, spread |-> spread(buy, sell, FALSE)]
       ELSE [op |-> op, orders |-> all_orders_union(buy, sell), spread |-> NoSpread]

\* C18: whatever the state of the ingestion task, a completed query carries no
\* error and is the query's value on contents the store has held (the buy side
\* no later than the sell side), so at worst stale.
C18_ReadersNeverSeeIngestionErrors ==
    lastRead.op # "none" =>
        /\ lastRead.spread.err = "none"
        /\ \E k \in 1 .. Len(hist) : \E j \in k .. Len(hist) :
              lastRead = ReadFrom(hist[k], hist[j], lastRead.op)

\* a query answered from the book of a task that has ended on a panic
C18_Witness ==
    /\ pc = "exited" /\ exitCause = "panic"
    /\ lastRead.op = "all_orders"
    /\ lastRead.orders # << >>
    /\ lastRead = ReadFrom(store, store, "all_orders")

\* the cursor before any record was decoded: 0 in fetch_historical_data, the
\* start block handed to listen_for_new_deltas
InitialCursor ==
    IF pc = "live_open" \/ Len(requests) >= 2 THEN contract_start_block ELSE 0

\* C19: the cursor is the block of the last decoded record, or its initial
\* value when none was decoded: it is set before the record is applied, with
\* no comparison to its previous value, so also when the block is lower, and
\* a record that fails to decode leaves it as it was.
C19_CursorIsLastDecodedBlock ==
    /\ [](last_processed_block =
             IF decoded = << >> THEN InitialCursor ELSE LastDecodedBlock)
    /\ [](pc \in {"hist_apply", "live_apply"} =>
             /\ Len(applied) = Len(decoded) - 1
             /\ last_processed_block = chain[decoded[Len(decoded)]].block)
    /\ [][(exitCause' = "decode" /\ exitCause # "decode") =>
             last_processed_block' = last_processed_block]_vars

\* a live record of a lower block than the cursor has just been decoded
C19_Witness ==
    /\ pc = "live_apply"
    /\ Len(decoded) >= 2
    /\ chain[decoded[Len(decoded) - 1]].block > last_processed_block
    /\ last_processed_block = LastDecodedBlock

====
